---------------------------- MODULE Spec2Model ----------------------------
(***************************************************************************)
(* Task state-management layer of the task manager: the useTasks hook      *)
(* (src/src/hooks/useTasks.ts) on top of the useLocalStorage adapter.      *)
(*                                                                         *)
(* Strings are sequences of character codes (65 = "A", 97 = "a",           *)
(* 32 = " "), so that toLowerCase, trim and includes are computed.         *)
(* JavaScript values that change under JSON are tagged records:            *)
(*   Undefined, Null, Str(chars), DateOf(ms).                              *)
(* One step of Spec is one event handler run to completion, followed by    *)
(* the re-render React performs before the next event is dispatched; in    *)
(* Spec every localStorage.setItem succeeds.                               *)
(***************************************************************************)
EXTENDS Integers, Sequences, FiniteSets, TLC

VARIABLES
  tasks,         \* useTasks.ts:10  in-memory Task[] held by useLocalStorage
  editingTask,   \* useTasks.ts:11  Task snapshot or Null
  searchQuery,   \* useTasks.ts:12  Str
  localStorage,  \* window.localStorage: key -> Null or stored JSON text
  now,           \* the wall clock read by Date.now() / new Date(), in ms
  taskStats,     \* useTasks.ts:103 value memoized by useMemo(..., [tasks])
  closure,       \* editingTask as captured by the handlers of the last render
  showForm,      \* part_002:16 whether the page shows the task form
  listener,      \* the keydown listener of useKeyboardShortcuts: whether it
                 \* is attached to the document, and the handlers given
                 \* to the shortcuts object it closes over
  last           \* history: the operation that ran last, with its arguments

vars ==
  <<tasks, editingTask, searchQuery, localStorage, now, taskStats, closure,
    showForm, listener, last>>

---------------------------------------------------------------------------
(* Bounds *)

\* size of an explored session: tasks in the list plus milliseconds elapsed
MaxSize == 2

---------------------------------------------------------------------------
(* JavaScript values *)

Undefined == [kind |-> "undefined"]
Null == [kind |-> "null"]
Str(chars) == [kind |-> "string", chars |-> chars]
DateOf(ms) == [kind |-> "Date", ms |-> ms]

EmptyStr == Str(<< >>)

IsWhitespace(c) == c \in {9, 10, 11, 12, 13, 32}

\* String.prototype.toLowerCase on the character codes
ToLowerCase(s) ==
  Str([i \in DOMAIN s.chars |->
        IF s.chars[i] \in 65..90 THEN s.chars[i] + 32 ELSE s.chars[i]])

RECURSIVE TrimStart(_)
TrimStart(cs) ==
  IF cs # << >> /\ IsWhitespace(Head(cs)) THEN TrimStart(Tail(cs)) ELSE cs

RECURSIVE TrimEnd(_)
TrimEnd(cs) ==
  IF cs # << >> /\ IsWhitespace(cs[Len(cs)])
    THEN TrimEnd(SubSeq(cs, 1, Len(cs) - 1))
    ELSE cs

\* String.prototype.trim
Trim(s) == Str(TrimEnd(TrimStart(s.chars)))

\* String.prototype.includes
Includes(s, q) ==
  \E i \in 0..(Len(s.chars) - Len(q.chars)) :
     SubSeq(s.chars, i + 1, i + Len(q.chars)) = q.chars

\* digit d of a radix-36 numeral as a character code: 0-9, a-z
Digit36(d) == IF d < 10 THEN 48 + d ELSE 87 + d

RECURSIVE Numeral(_, _)
Numeral(n, radix) ==
  IF n < radix THEN << Digit36(n) >>
  ELSE Numeral(n \div radix, radix) \o << Digit36(n % radix) >>

\* Number.prototype.toString(36) of a non-negative integer
ToString36(n) == Str(Numeral(n, 36))

\* A value of Math.random() in [0, 1) is given by its radix-36 fraction
\* digits; toString(36) prints "0" for zero and "0." followed by the digits
\* otherwise.
RandomToString36(frac) ==
  IF frac = << >> THEN Str(<< 48 >>)
  ELSE Str(<< 48, 46 >> \o [i \in DOMAIN frac |-> Digit36(frac[i])])

\* String.prototype.substr(2)
Substr2(s) == Str(SubSeq(s.chars, 3, Len(s.chars)))

Concat(a, b) == Str(a.chars \o b.chars)

\* Date.prototype.toISOString, abbreviated to "T" followed by the decimal
\* milliseconds
ToISOString(d) == Str(<< 84 >> \o Numeral(d.ms, 10))

---------------------------------------------------------------------------
(* Inputs *)

\* values Math.random() may return (0 and 10/36)
RandomDraws == { << >>, << 10 >> }

Priorities == {"high", "medium", "low"}

\* TaskFormData handed over by the editor form
FormAb == [title |-> Str(<<65, 98>>), description |-> Undefined,
           priority |-> "low", dueDate |-> Undefined]
FormCd == [title |-> Str(<<67, 100>>), description |-> Str(<<97, 66>>),
           priority |-> "high", dueDate |-> DateOf(0)]
FormData == {FormAb, FormCd}

\* text typed into the search box: "" and "x"
Queries == { EmptyStr, Str(<<120>>) }

\* an id no task ever gets ("?")
UnknownId == Str(<<63>>)

StorageKeys == {"tasks", "task"}

---------------------------------------------------------------------------
(* Durable Store Adapter *)

TasksKeyMisspelt == "task"

\* the key useTasks passes to useLocalStorage
TasksKey == "tasks"

\* fields of Task declared optional
OptionalFields == {"description", "dueDate"}

\* JSON.stringify of one value: a Date becomes its ISO string
ToJSON(v) == IF v.kind = "Date" THEN ToISOString(v) ELSE v

\* JSON.stringify of one Task: properties whose value is undefined are
\* left out, Dates become strings
StringifyTask(t) ==
  [f \in {k \in DOMAIN t :
            ~(k \in OptionalFields /\ t[k] = Undefined)} |->
     IF f \in {"priority", "completed"} THEN t[f] ELSE ToJSON(t[f])]

\* JSON.stringify(value) for a Task[]
JsonStringify(ts) == [kind |-> "json", value |-> [i \in DOMAIN ts |-> StringifyTask(ts[i])]]

SetItemLosesSlot(store, key, text, ok) ==
  IF ok THEN [store EXCEPT ![key] = text] ELSE [store EXCEPT ![key] = Null]

\* localStorage.setItem(key, text); the primitive may throw (quota), and
\* then the store keeps what it had
SetItem(store, key, text, ok) ==
  IF ok THEN [store EXCEPT ![key] = text] ELSE store

SetTasksWhenInSync(newTasks, ok) ==
  /\ tasks' = newTasks
  /\ localStorage' =
       IF localStorage[TasksKey] \in {Null, JsonStringify(tasks)}
         THEN SetItem(localStorage, TasksKey, JsonStringify(newTasks), ok)
         ELSE localStorage

\* the setter returned by useLocalStorage(TasksKey, []): replaces the
\* in-memory value and writes its JSON under the key, swallowing a failure
SetTasks(newTasks, ok) ==
  /\ tasks' = newTasks
  /\ localStorage' = SetItem(localStorage, TasksKey, JsonStringify(newTasks), ok)

\* raw text in a slot that is not JSON
InvalidText == [kind |-> "text"]

\* the text "null"
JsonNull == [kind |-> "json", null |-> TRUE]

\* the value null held where an array is expected, written as a sequence
\* so that it compares with arrays
NullValue == << Null >>

TaskFields ==
  {"id", "title", "description", "priority", "completed", "dueDate",
   "createdAt", "updatedAt"}

\* one parsed object read as a Task: a property the text does not have
\* reads as undefined, the timestamps stay the strings of the text
ParseTask(jt) ==
  [f \in TaskFields |-> IF f \in DOMAIN jt THEN jt[f] ELSE Undefined]

\* JSON.parse of a valid text
JsonParse(text) ==
  IF "null" \in DOMAIN text THEN NullValue
  ELSE [i \in DOMAIN text.value |-> ParseTask(text.value[i])]

ReadWithoutFallback(store, key, defaultValue, ok) ==
  IF ok /\ store[key] # Null /\ store[key].kind = "json"
    THEN JsonParse(store[key])
    ELSE NullValue

\* the initial value of useLocalStorage(key, defaultValue): the default
\* when getItem throws (ok = FALSE), returns null or returns text that is
\* not JSON, else the parsed value
Read(store, key, defaultValue, ok) ==
  IF ~ok THEN defaultValue
  ELSE IF store[key] = Null THEN defaultValue
  ELSE IF store[key].kind # "json" THEN defaultValue
  ELSE JsonParse(store[key])

---------------------------------------------------------------------------
(* Derived views *)

\* the filter callback of filteredTasks; reading toLowerCase of an
\* undefined description throws a TypeError
MatchThrows(task, query) ==
  /\ ~Includes(ToLowerCase(task.title), query)
  /\ task.description = Undefined

Matches(task, query) ==
  \/ Includes(ToLowerCase(task.title), query)
  \/ Includes(ToLowerCase(task.description), query)

RECURSIVE FilterSeq(_, _)
FilterSeq(ts, query) ==
  IF ts = << >> THEN << >>
  ELSE IF Matches(Head(ts), query)
         THEN << Head(ts) >> \o FilterSeq(Tail(ts), query)
         ELSE FilterSeq(Tail(ts), query)

FilteredOfTrimmed(ts, sq) ==
  IF Trim(sq) = EmptyStr THEN [ok |-> TRUE, value |-> ts]
  ELSE LET query == ToLowerCase(Trim(sq)) IN
       IF \E i \in DOMAIN ts : MatchThrows(ts[i], query)
         THEN [ok |-> FALSE, value |-> << >>]
         ELSE [ok |-> TRUE, value |-> FilterSeq(ts, query)]

\* filteredTasks as computed from the given state: ok = FALSE when the
\* computation throws
FilteredOf(ts, sq) ==
  IF Trim(sq) = EmptyStr THEN [ok |-> TRUE, value |-> ts]
  ELSE LET query == ToLowerCase(sq) IN
       IF \E i \in DOMAIN ts : MatchThrows(ts[i], query)
         THEN [ok |-> FALSE, value |-> << >>]
         ELSE [ok |-> TRUE, value |-> FilterSeq(ts, query)]

filteredTasks == FilteredOf(tasks, searchQuery)

\* tasks.length and tasks.filter of the stats throw when tasks is null
StatsThrows(ts) == ts = NullValue

\* the hook is usable only while its render does not throw
Mounted == filteredTasks.ok /\ ~StatsThrows(tasks)

\* decimal value of the character codes of a numeral
RECURSIVE ParseDecimal(_)
ParseDecimal(cs) ==
  IF cs = << >> THEN 0
  ELSE 10 * ParseDecimal(SubSeq(cs, 1, Len(cs) - 1)) + (cs[Len(cs)] - 48)

\* new Date(value).getTime() for a Date or for the ISO string of one
TimeOf(v) == IF v.kind = "Date" THEN v.ms ELSE ParseDecimal(Tail(v.chars))

\* !task.dueDate: undefined and the empty string are falsy
NoDueDate(task) == task.dueDate = Undefined \/ task.dueDate = EmptyStr

IsOverdueAtOrBefore(task, time) ==
  IF NoDueDate(task) \/ task.completed THEN FALSE
  ELSE TimeOf(task.dueDate) <= time

\* the filter callback of overdue, evaluated at the given time
IsOverdue(task, time) ==
  IF NoDueDate(task) \/ task.completed THEN FALSE
  ELSE TimeOf(task.dueDate) < time

\* the body of the taskStats memo, evaluated at the given time
StatsOf(ts, time) ==
  LET total == Len(ts)
      completed == Len(SelectSeq(ts, LAMBDA task : task.completed))
  IN [total |-> total,
      completed |-> completed,
      pending |-> total - completed,
      overdue |-> Len(SelectSeq(ts, LAMBDA task : IsOverdue(task, time)))]

\* useMemo(..., [tasks]) after an operation that called setTasks: the render
\* that follows evaluates the body again, unless filteredTasks threw before
\* it; `at` records the time of that evaluation
RecomputeStats ==
  taskStats' = IF FilteredOf(tasks', searchQuery').ok
                 THEN [value |-> StatsOf(tasks', now'), at |-> now']
                 ELSE taskStats

---------------------------------------------------------------------------
(* Operations *)

\* Date.now().toString(36) + Math.random().toString(36).substr(2)
generateId(time, frac) ==
  Concat(ToString36(time), Substr2(RandomToString36(frac)))

Ids(ts) == {ts[i].id : i \in DOMAIN ts}

\* outcome of the localStorage.setItem call an operation made
Write(ok) == IF ok THEN "ok" ELSE "failed"

MutatingOps ==
  {"addTask", "editTask", "deleteTask", "toggleTaskComplete", "clearAllTasks"}

\* the write of the operation before failed and the slot does not hold the
\* JSON text of tasks
AfterFailure ==
  /\ last.op \in MutatingOps
  /\ last.write = "failed"
  /\ localStorage[TasksKey] # JsonStringify(tasks)

\* no keydown listener on the document
NoListener == [attached |-> FALSE, given |-> {}]

Init ==
  /\ tasks = << >>
  /\ editingTask = Null
  /\ searchQuery = EmptyStr
  /\ localStorage = [k \in StorageKeys |-> Null]
  /\ now = 0
  /\ taskStats = [value |-> StatsOf(<< >>, 0), at |-> 0]
  /\ closure = Null
  /\ showForm = FALSE
  /\ listener = NoListener
  /\ last = [op |-> "init"]

\* the store is used without the page: no form, no shortcuts
PageIdle == UNCHANGED <<showForm, listener>>

\* the number of tasks held, none when tasks is null
Size(ts) == IF ts = NullValue THEN 0 ELSE Len(ts)

\* the clock advances between events
Tick ==
  /\ Size(tasks) + now < MaxSize
  /\ now' = now + 1
  /\ UNCHANGED <<tasks, editingTask, searchQuery, localStorage, taskStats,
                 closure, last>>
  /\ PageIdle

\* the Task built by addTask; the clock is read three times (generateId,
\* createdAt, updatedAt) and may advance by d1, d2 between the reads
NewTask(taskData, frac, d1, d2) ==
  [id |-> generateId(now, frac),
   title |-> taskData.title,
   description |-> taskData.description,
   priority |-> taskData.priority,
   completed |-> FALSE,
   dueDate |-> taskData.dueDate,
   createdAt |-> DateOf(now + d1),
   updatedAt |-> DateOf(now + d1 + d2)]

addTask(taskData, frac, d1, d2, ok) ==
  /\ Mounted
  /\ Len(tasks) + 1 + now + d1 + d2 <= MaxSize
  /\ SetTasks(Append(tasks, NewTask(taskData, frac, d1, d2)), ok)
  /\ now' = now + d1 + d2
  /\ last' = [op |-> "addTask", data |-> taskData, write |-> Write(ok),
              afterFailure |-> AfterFailure]
  /\ UNCHANGED <<editingTask, searchQuery>>
  /\ RecomputeStats

EditedTaskFromSnapshot(task, taskData) ==
  [closure EXCEPT !.title = taskData.title,
                      !.description = taskData.description,
                      !.priority = taskData.priority,
                      !.dueDate = taskData.dueDate,
                      !.updatedAt = DateOf(now)]

\* the object spread of editTask for the matching task
EditedTask(task, taskData) ==
  [task EXCEPT !.title = taskData.title,
               !.description = taskData.description,
               !.priority = taskData.priority,
               !.dueDate = taskData.dueDate,
               !.updatedAt = DateOf(now)]

editTaskNoReturn(taskData, ok) ==
  /\ Mounted
  /\ SetTasks([i \in DOMAIN tasks |->
                 IF closure # Null /\ tasks[i].id = closure.id
                   THEN EditedTask(tasks[i], taskData)
                   ELSE tasks[i]], ok)
  /\ editingTask' = Null
  /\ last' = [op |-> "editTask", data |-> taskData, write |-> Write(ok),
              target |-> closure, afterFailure |-> AfterFailure]
  /\ UNCHANGED <<searchQuery, now>>
  /\ RecomputeStats

\* editingTask is the constant of the render that created the handler
editTask(taskData, ok) ==
  /\ Mounted
  /\ IF closure = Null
       THEN /\ last' = [op |-> "editTask", data |-> taskData,
                        write |-> "none", target |-> Null,
                        afterFailure |-> FALSE]
            /\ UNCHANGED <<tasks, editingTask, localStorage, taskStats>>
            /\ UNCHANGED <<searchQuery, now>>
       ELSE /\ SetTasks([i \in DOMAIN tasks |->
                           IF tasks[i].id = closure.id
                             THEN EditedTask(tasks[i], taskData)
                             ELSE tasks[i]], ok)
            /\ editingTask' = Null
            /\ last' = [op |-> "editTask", data |-> taskData,
                        write |-> Write(ok), target |-> closure,
                        afterFailure |-> AfterFailure]
            /\ UNCHANGED <<searchQuery, now>>
            /\ RecomputeStats

WithoutIdInverted(ts, taskId) == SelectSeq(ts, LAMBDA task : task.id = taskId)

\* prev.filter(task => task.id !== taskId)
WithoutId(ts, taskId) == SelectSeq(ts, LAMBDA task : task.id # taskId)

EditingAfterDeleteKept(seen, et, taskId) == et

\* if (editingTask?.id === taskId) setEditingTask(null), the condition
\* reading the editingTask seen by the handler
EditingAfterDelete(seen, et, taskId) ==
  IF seen # Null /\ seen.id = taskId THEN Null ELSE et

deleteTask(taskId, ok) ==
  /\ Mounted
  /\ SetTasks(WithoutId(tasks, taskId), ok)
  /\ editingTask' = EditingAfterDelete(closure, editingTask, taskId)
  /\ last' = [op |-> "deleteTask", id |-> taskId, write |-> Write(ok),
              found |-> taskId \in Ids(tasks), editing |-> editingTask,
              afterFailure |-> AfterFailure]
  /\ UNCHANGED <<searchQuery, now>>
  /\ RecomputeStats

ToggledTaskResetsCreatedAt(task) ==
  [task EXCEPT !.completed = ~task.completed, !.createdAt = DateOf(now),
               !.updatedAt = DateOf(now)]

ToggledTaskKeepsUpdatedAt(task) == [task EXCEPT !.completed = ~task.completed]

ToggledTaskSetsTrue(task) ==
  [task EXCEPT !.completed = TRUE, !.updatedAt = DateOf(now)]

\* the object spread of toggleTaskComplete for the matching task
ToggledTask(task) ==
  [task EXCEPT !.completed = ~task.completed, !.updatedAt = DateOf(now)]

toggleTaskComplete(taskId, ok) ==
  /\ Mounted
  /\ SetTasks([i \in DOMAIN tasks |->
                 IF tasks[i].id = taskId THEN ToggledTask(tasks[i])
                 ELSE tasks[i]], ok)
  /\ last' = [op |-> "toggleTaskComplete", id |-> taskId, write |-> Write(ok),
              pre |-> [i \in DOMAIN tasks |-> tasks[i].completed],
              afterFailure |-> AfterFailure]
  /\ UNCHANGED <<editingTask, searchQuery, now>>
  /\ RecomputeStats

startEditingTask(task) ==
  /\ Mounted
  /\ editingTask' = task
  /\ last' = [op |-> "startEditingTask", task |-> task]
  /\ UNCHANGED <<tasks, searchQuery, localStorage, now, taskStats>>

cancelEditingClearsQuery ==
  /\ Mounted
  /\ editingTask' = Null
  /\ searchQuery' = EmptyStr
  /\ last' = [op |-> "cancelEditing"]
  /\ UNCHANGED <<tasks, localStorage, now, taskStats>>

cancelEditing ==
  /\ Mounted
  /\ editingTask' = Null
  /\ last' = [op |-> "cancelEditing"]
  /\ UNCHANGED <<tasks, searchQuery, localStorage, now, taskStats>>

clearAllTasksKeepsQuery(ok) ==
  /\ Mounted
  /\ SetTasks(<< >>, ok)
  /\ editingTask' = Null
  /\ last' = [op |-> "clearAllTasks", write |-> Write(ok),
              had |-> [tasks |-> Len(tasks), editing |-> editingTask # Null,
                       query |-> searchQuery],
              afterFailure |-> AfterFailure]
  /\ UNCHANGED <<searchQuery, now>>
  /\ RecomputeStats

clearAllTasks(ok) ==
  /\ Mounted
  /\ SetTasks(<< >>, ok)
  /\ editingTask' = Null
  /\ searchQuery' = EmptyStr
  /\ last' = [op |-> "clearAllTasks", write |-> Write(ok),
              had |-> [tasks |-> Len(tasks), editing |-> editingTask # Null,
                       query |-> searchQuery],
              afterFailure |-> AfterFailure]
  /\ UNCHANGED now
  /\ RecomputeStats

setSearchQuery(query) ==
  /\ Mounted
  /\ searchQuery' = query
  /\ last' = [op |-> "setSearchQuery", query |-> query]
  /\ UNCHANGED <<tasks, editingTask, localStorage, now, taskStats>>

\* ids a caller can name: those of the tasks on screen, plus a stale one
KnownIds == Ids(tasks) \cup {UnknownId}

\* the render after an event: the handlers it creates capture the new
\* editingTask
Render == closure' = editingTask'

\* one event per operation, each followed by a render
AddTaskStep ==
  /\ \E taskData \in FormData, frac \in RandomDraws, d1, d2 \in 0..1 :
        addTask(taskData, frac, d1, d2, TRUE)
  /\ Render
  /\ PageIdle
EditTaskStep ==
  /\ \E taskData \in FormData : editTask(taskData, TRUE)
  /\ Render
  /\ PageIdle
DeleteTaskStep ==
  /\ \E taskId \in KnownIds : deleteTask(taskId, TRUE)
  /\ Render
  /\ PageIdle
ToggleTaskCompleteStep ==
  /\ \E taskId \in KnownIds : toggleTaskComplete(taskId, TRUE)
  /\ Render
  /\ PageIdle
StartEditingTaskStep ==
  /\ \E i \in DOMAIN tasks : startEditingTask(tasks[i])
  /\ Render
  /\ PageIdle
CancelEditingStep == cancelEditing /\ Render /\ PageIdle
ClearAllTasksStep == clearAllTasks(TRUE) /\ Render /\ PageIdle
SetSearchQueryStep ==
  /\ \E query \in Queries : setSearchQuery(query)
  /\ Render
  /\ PageIdle

Next ==
  \/ Tick
  \/ AddTaskStep
  \/ EditTaskStep
  \/ DeleteTaskStep
  \/ ToggleTaskCompleteStep
  \/ StartEditingTaskStep
  \/ CancelEditingStep
  \/ ClearAllTasksStep
  \/ SetSearchQueryStep

Spec == Init /\ [][Next]_vars

---------------------------------------------------------------------------
(* The store over a slot with any content, with failing primitives *)

\* the stats of the first render of a store instance
FirstStats(ts, sq, time) ==
  IF FilteredOf(ts, sq).ok /\ ~StatsThrows(ts)
    THEN [value |-> StatsOf(ts, time), at |-> time]
    ELSE [value |-> Undefined, at |-> time]

\* a task as an earlier session stored it
StoredTask ==
  StringifyTask([id |-> Str(<<48>>), title |-> FormCd.title,
                 description |-> Undefined, priority |-> FormCd.priority,
                 completed |-> FALSE, dueDate |-> FormCd.dueDate,
                 createdAt |-> DateOf(0), updatedAt |-> DateOf(0)])

\* contents of the "tasks" slot at initialization
SlotContents ==
  {Null, InvalidText, JsonNull,
   [kind |-> "json", value |-> << >>],
   [kind |-> "json", value |-> << StoredTask >>]}

\* useLocalStorage<Task[]>('tasks', []) of a fresh store instance
LoadedTasks(store, ok) == Read(store, TasksKey, << >>, ok)

InitStore ==
  /\ \E text \in SlotContents :
       localStorage = [k \in StorageKeys |->
                         IF k = TasksKey THEN text ELSE Null]
  /\ \E ok \in BOOLEAN :
       /\ tasks = LoadedTasks(localStorage, ok)
       /\ last = [op |-> "load", read |-> ok, persisted |-> FALSE,
                  before |-> << >>]
  /\ editingTask = Null
  /\ searchQuery = EmptyStr
  /\ closure = Null
  /\ showForm = FALSE
  /\ listener = NoListener
  /\ now = 0
  /\ taskStats = FirstStats(tasks, searchQuery, now)

\* the page is loaded again: a fresh store instance reads the slot
Reload(ok) ==
  /\ tasks' = LoadedTasks(localStorage, ok)
  /\ editingTask' = Null
  /\ searchQuery' = EmptyStr
  /\ closure' = Null
  /\ last' = [op |-> "load", read |-> ok,
              persisted |-> (tasks # NullValue
                               /\ localStorage[TasksKey] = JsonStringify(tasks)),
              before |-> tasks]
  /\ UNCHANGED <<localStorage, now>>
  /\ PageIdle
  /\ taskStats' = FirstStats(tasks', searchQuery', now')

StoreAddTask ==
  /\ \E taskData \in FormData, ok \in BOOLEAN :
        addTask(taskData, << >>, 0, 0, ok)
  /\ Render
  /\ PageIdle
StoreToggleTaskComplete ==
  /\ Mounted
  /\ \E taskId \in Ids(tasks), ok \in BOOLEAN : toggleTaskComplete(taskId, ok)
  /\ Render
  /\ PageIdle
StoreDeleteTask ==
  /\ Mounted
  /\ \E taskId \in Ids(tasks), ok \in BOOLEAN : deleteTask(taskId, ok)
  /\ Render
  /\ PageIdle
StoreClearAllTasks ==
  /\ \E ok \in BOOLEAN : clearAllTasks(ok)
  /\ Render
  /\ PageIdle
ReloadStep == \E ok \in BOOLEAN : Reload(ok)

NextStore ==
  \/ Tick
  \/ StoreAddTask
  \/ StoreToggleTaskComplete
  \/ StoreDeleteTask
  \/ StoreClearAllTasks
  \/ ReloadStep

SpecStore == InitStore /\ [][NextStore]_vars

---------------------------------------------------------------------------
(* A session on an empty store in which any write may throw *)

QuotaAddTask ==
  /\ \E ok \in BOOLEAN : addTask(FormAb, << >>, 0, 0, ok)
  /\ Render
  /\ PageIdle
QuotaStartEditingTask ==
  /\ \E i \in DOMAIN tasks : startEditingTask(tasks[i])
  /\ Render
  /\ PageIdle
QuotaEditTask ==
  /\ closure # Null
  /\ \E ok \in BOOLEAN : editTask(FormCd, ok)
  /\ Render
  /\ PageIdle
QuotaDeleteTask ==
  /\ \E taskId \in Ids(tasks), ok \in BOOLEAN : deleteTask(taskId, ok)
  /\ Render
  /\ PageIdle
QuotaToggleTaskComplete ==
  /\ \E taskId \in Ids(tasks), ok \in BOOLEAN : toggleTaskComplete(taskId, ok)
  /\ Render
  /\ PageIdle
QuotaClearAllTasks ==
  /\ \E ok \in BOOLEAN : clearAllTasks(ok)
  /\ Render
  /\ PageIdle

NextQuota ==
  \/ QuotaAddTask
  \/ QuotaStartEditingTask
  \/ QuotaEditTask
  \/ QuotaDeleteTask
  \/ QuotaToggleTaskComplete
  \/ QuotaClearAllTasks

SpecQuota == Init /\ [][NextQuota]_vars

---------------------------------------------------------------------------
(* Operations invoked back to back inside one event handler *)

\* no render between the calls of one handler: the next call runs with the
\* handlers, and so the editingTask, of the render before the event
InHandler == closure' = closure

BatchAddTask ==
  /\ \E taskData \in FormData : addTask(taskData, << >>, 0, 0, TRUE)
  /\ InHandler
  /\ PageIdle
BatchEditTask ==
  /\ \E taskData \in FormData : editTask(taskData, TRUE)
  /\ InHandler
  /\ PageIdle
BatchDeleteTask ==
  /\ \E taskId \in KnownIds : deleteTask(taskId, TRUE)
  /\ InHandler
  /\ PageIdle
BatchToggleTaskComplete ==
  /\ \E taskId \in KnownIds : toggleTaskComplete(taskId, TRUE)
  /\ InHandler
  /\ PageIdle
BatchStartEditingTask ==
  /\ \E i \in DOMAIN tasks : startEditingTask(tasks[i])
  /\ InHandler
  /\ PageIdle
BatchCancelEditing == cancelEditing /\ InHandler /\ PageIdle

\* the handler returns and React renders: new handlers capture the state
RenderStep ==
  /\ closure # editingTask
  /\ closure' = editingTask
  /\ UNCHANGED <<tasks, editingTask, searchQuery, localStorage, now,
                 taskStats, last>>
  /\ PageIdle

NextBatch ==
  \/ Tick
  \/ BatchAddTask
  \/ BatchEditTask
  \/ BatchDeleteTask
  \/ BatchToggleTaskComplete
  \/ BatchStartEditingTask
  \/ BatchCancelEditing
  \/ RenderStep

SpecBatch == Init /\ [][NextBatch]_vars

---------------------------------------------------------------------------
(* The task form: taskSchema and its submission *)

TitleMin == 1
TitleMax == 100
DescriptionMax == 500

\* a text of n characters c
Repeat(c, n) == Str([i \in 1..n |-> c])

\* what the user has typed when the form is submitted: titles "", " ",
\* "A" and one of TitleMax + 1 characters with no description, and a
\* description of DescriptionMax + 1 characters under the title "A"
TitleInputs ==
  {EmptyStr, Str(<<32>>), Str(<<65>>), Repeat(97, TitleMax + 1)}
FormInput(title, description) ==
  [title |-> title, description |-> description, priority |-> "medium",
   dueDate |-> Undefined]
FormInputs ==
  {FormInput(title, EmptyStr) : title \in TitleInputs}
    \cup {FormInput(Str(<<65>>), Repeat(98, DescriptionMax + 1))}

\* the issue taskSchema raises for the title: min and max are checked on
\* the text as typed, before trim is applied
TitleIssue(title) ==
  IF Len(title.chars) < TitleMin THEN "Title is required"
  ELSE IF Len(title.chars) > TitleMax
    THEN "Title must be 100 characters or less"
  ELSE "none"

\* the issue taskSchema raises for the description
DescriptionIssue(description) ==
  IF description # Undefined /\ Len(description.chars) > DescriptionMax
    THEN "Description must be 500 characters or less"
  ELSE "none"

\* taskSchema.safeParse(input): the data carries the trimmed title
ParseForm(input) ==
  [success |-> /\ TitleIssue(input.title) = "none"
               /\ DescriptionIssue(input.description) = "none",
   error |-> IF TitleIssue(input.title) # "none"
               THEN TitleIssue(input.title)
               ELSE DescriptionIssue(input.description),
   data |-> [input EXCEPT !.title = Trim(input.title)]]

---------------------------------------------------------------------------
(* The keyboard shortcuts *)

Ctrl == Str(<<99, 116, 114, 108>>)
Shift == Str(<<115, 104, 105, 102, 116>>)
Alt == Str(<<97, 108, 116>>)
Plus == Str(<<43>>)

\* keys.join('+')
RECURSIVE Join(_)
Join(keys) ==
  IF Len(keys) = 1 THEN keys[1]
  ELSE Concat(Concat(keys[1], Plus), Join(Tail(keys)))

CombinationIgnoresShift(event) ==
  Join((IF event.ctrlKey \/ event.metaKey THEN << Ctrl >> ELSE << >>)
       \o (IF event.altKey THEN << Alt >> ELSE << >>)
       \o << ToLowerCase(event.key) >>)

\* the combination string handleKeyDown builds for an event
Combination(event) ==
  Join((IF event.ctrlKey \/ event.metaKey THEN << Ctrl >> ELSE << >>)
       \o (IF event.shiftKey THEN << Shift >> ELSE << >>)
       \o (IF event.altKey THEN << Alt >> ELSE << >>)
       \o << ToLowerCase(event.key) >>)

\* the combinations useTaskShortcuts binds
CtrlN == Str(<<99, 116, 114, 108, 43, 110>>)
Escape == Str(<<101, 115, 99, 97, 112, 101>>)
CtrlF == Str(<<99, 116, 114, 108, 43, 102>>)
CtrlS == Str(<<99, 116, 114, 108, 43, 115>>)

HandlerNames == {"onNewTask", "onEscape", "onSearch", "onSave"}

CombinationOf(name) ==
  CASE name = "onNewTask" -> CtrlN
    [] name = "onEscape" -> Escape
    [] name = "onSearch" -> CtrlF
    [] name = "onSave" -> CtrlS

\* the shortcuts object useTaskShortcuts builds from the handlers given
TaskShortcuts(given) ==
  [c \in {CombinationOf(name) : name \in given} |->
     CHOOSE name \in given : CombinationOf(name) = c]

\* handleKeyDown: the handler it invokes, if any, and whether it calls
\* preventDefault
Dispatch(shortcuts, event) ==
  LET combination == Combination(event) IN
  IF combination \in DOMAIN shortcuts
    THEN [combination |-> combination, prevented |-> TRUE,
          handler |-> shortcuts[combination]]
    ELSE [combination |-> combination, prevented |-> FALSE,
          handler |-> "none"]

---------------------------------------------------------------------------
(* The page shell: the store behind the form, the cards and the shortcuts *)

KeyEvent(key, ctrl, meta, shift, alt) ==
  [key |-> key, ctrlKey |-> ctrl, metaKey |-> meta, shiftKey |-> shift,
   altKey |-> alt]

\* keys pressed on the page: Ctrl+N, Escape, Ctrl+Shift+N
PageKeyEvents ==
  {KeyEvent(Str(<<110>>), TRUE, FALSE, FALSE, FALSE),
   KeyEvent(Str(<<69, 115, 99, 97, 112, 101>>), FALSE, FALSE, FALSE, FALSE),
   KeyEvent(Str(<<78>>), TRUE, FALSE, TRUE, FALSE)}

\* texts typed into the search box: "", "a", "A "
PageQueries == {EmptyStr, Str(<<97>>), Str(<<65, 32>>)}

\* the handlers the page passes to useTaskShortcuts
PageHandlers == {"onNewTask", "onEscape", "onSearch"}

InitPage ==
  /\ tasks = << >>
  /\ editingTask = Null
  /\ searchQuery = EmptyStr
  /\ localStorage = [k \in StorageKeys |-> Null]
  /\ now = 0
  /\ taskStats = [value |-> StatsOf(<< >>, 0), at |-> 0]
  /\ closure = Null
  /\ showForm = FALSE
  /\ listener = [attached |-> TRUE, given |-> PageHandlers]
  /\ last = [op |-> "init"]

\* an event of the page that leaves the store as it is
StoreIdle ==
  UNCHANGED <<tasks, editingTask, searchQuery, localStorage, now, taskStats,
              closure>>

\* the Add Task button: setShowForm(!showForm)
ClickAddTask ==
  /\ Mounted
  /\ showForm' = ~showForm
  /\ last' = [op |-> "clickAddTask"]
  /\ StoreIdle
  /\ UNCHANGED listener

handleEditClick(task) ==
  /\ startEditingTask(task)
  /\ showForm' = TRUE
  /\ Render
  /\ UNCHANGED listener

handleCancelForm ==
  /\ showForm' = FALSE
  /\ cancelEditing
  /\ Render
  /\ UNCHANGED listener

\* the form's onSubmit as the last render wired it
onSubmit(data) ==
  IF closure # Null
    THEN editTask(data, TRUE)
    ELSE addTask(data, << >>, 0, 0, TRUE)

\* handleSubmit(onFormSubmit): the resolver parses the input, and only
\* parsed data reaches onSubmit, that is handleEditTask or handleAddTask
SubmitForm(input) ==
  /\ Mounted
  /\ showForm
  /\ IF ParseForm(input).success
       THEN /\ onSubmit(ParseForm(input).data)
            /\ showForm' = FALSE
            /\ Render
            /\ UNCHANGED listener
       ELSE /\ last' = [op |-> "submitRejected", input |-> input,
                        error |-> ParseForm(input).error]
            /\ StoreIdle
            /\ UNCHANGED <<showForm, listener>>

\* the keydown listener with the handlers of the page
PageKeyDown(event) ==
  /\ Mounted
  /\ listener.attached
  /\ LET handler == Dispatch(TaskShortcuts(listener.given), event).handler IN
     IF handler = "onNewTask" /\ ~showForm
       THEN /\ showForm' = TRUE
            /\ cancelEditing
            /\ Render
            /\ UNCHANGED listener
     ELSE IF handler = "onEscape" /\ showForm
       THEN handleCancelForm
     ELSE /\ last' = [op |-> "keydown",
                      dispatch |->
                        Dispatch(TaskShortcuts(listener.given), event)]
          /\ StoreIdle
          /\ UNCHANGED <<showForm, listener>>

handleResetTest ==
  /\ clearAllTasks(TRUE)
  /\ showForm' = FALSE
  /\ Render
  /\ UNCHANGED listener

ClickEdit ==
  \E i \in DOMAIN filteredTasks.value :
     handleEditClick(filteredTasks.value[i])
ClickDelete ==
  /\ \E i \in DOMAIN filteredTasks.value :
        deleteTask(filteredTasks.value[i].id, TRUE)
  /\ Render
  /\ PageIdle
ClickToggle ==
  /\ \E i \in DOMAIN filteredTasks.value :
        toggleTaskComplete(filteredTasks.value[i].id, TRUE)
  /\ Render
  /\ PageIdle
TypeSearch ==
  /\ tasks # << >>
  /\ \E query \in PageQueries : setSearchQuery(query)
  /\ Render
  /\ PageIdle
SubmitFormStep == \E input \in FormInputs : SubmitForm(input)
PageKeyDownStep == \E event \in PageKeyEvents : PageKeyDown(event)

NextPage ==
  \/ Tick
  \/ ClickAddTask
  \/ ClickEdit
  \/ ClickDelete
  \/ ClickToggle
  \/ TypeSearch
  \/ SubmitFormStep
  \/ handleCancelForm
  \/ PageKeyDownStep
  \/ handleResetTest

SpecPage == InitPage /\ [][NextPage]_vars

---------------------------------------------------------------------------
(* useKeyboardShortcuts on its own, with handlers that only record *)

\* keys n, N, Escape, f, s under every setting of the four modifiers
KeyEvents ==
  {KeyEvent(key, ctrl, meta, shift, alt) :
     key \in {Str(<<110>>), Str(<<78>>), Str(<<69, 115, 99, 97, 112, 101>>),
              Str(<<102>>), Str(<<115>>)},
     ctrl \in BOOLEAN, meta \in BOOLEAN, shift \in BOOLEAN, alt \in BOOLEAN}

\* the handlers a caller of useTaskShortcuts may give
Givens == {{}, PageHandlers, HandlerNames}

\* the hook renders with the given handlers and enabled flag: the effect
\* removes the listener of the render before and attaches a new one only
\* when enabled
UseShortcuts(given, enabled) ==
  /\ listener' = [attached |-> enabled, given |-> given]
  /\ last' = [op |-> "useKeyboardShortcuts", enabled |-> enabled]
  /\ StoreIdle
  /\ UNCHANGED showForm

\* the cleanup of the effect at unmount
Unmount ==
  /\ listener.attached
  /\ listener' = NoListener
  /\ last' = [op |-> "unmount"]
  /\ StoreIdle
  /\ UNCHANGED showForm

\* a key goes down on the document; handleKeyDown runs when attached
KeyDown(event) ==
  /\ last' =
       IF listener.attached
         THEN LET d == Dispatch(TaskShortcuts(listener.given), event) IN
              [op |-> "keydown", event |-> event,
               combination |-> d.combination, prevented |-> d.prevented,
               calls |-> IF d.handler = "none" THEN << >>
                         ELSE << d.handler >>]
         ELSE [op |-> "keydown", event |-> event,
               combination |-> EmptyStr, prevented |-> FALSE,
               calls |-> << >>]
  /\ StoreIdle
  /\ UNCHANGED <<showForm, listener>>

UseShortcutsStep ==
  \E given \in Givens, enabled \in BOOLEAN : UseShortcuts(given, enabled)
KeyDownStep == \E event \in KeyEvents : KeyDown(event)

NextKeys ==
  \/ UseShortcutsStep
  \/ Unmount
  \/ KeyDownStep

SpecKeys == Init /\ [][NextKeys]_vars

TypeOK ==
  /\ Size(tasks) + now <= MaxSize
  /\ searchQuery \in Queries

---------------------------------------------------------------------------
(* Properties *)

\* the operation that ran last called localStorage.setItem and it succeeded
Wrote == last.op \in MutatingOps /\ last.write = "ok"

\* C1: when no write fails, after every completed mutating operation the
\* value stored under "tasks" is the JSON text of the whole current tasks
\* sequence: the slot is filled by the first such operation and from then
\* on always equals the serialization of tasks.
C1_SlotIsWholeTasks ==
  /\ Wrote => localStorage["tasks"] # Null
  /\ localStorage["tasks"] # Null => localStorage["tasks"] = JsonStringify(tasks)

C1_Witness ==
  /\ last.op = "editTask" /\ last.write = "ok"
  /\ Len(tasks) = 2
  /\ localStorage["tasks"] = JsonStringify(tasks)

\* C2: no two tasks in tasks have the same id.
C2_IdsPairwiseDistinct ==
  \A i, j \in DOMAIN tasks : i # j => tasks[i].id # tasks[j].id

\* what C3 says of one addTask(taskData) step
C3_Appended(taskData) ==
  /\ Len(tasks') = Len(tasks) + 1
  /\ \A i \in DOMAIN tasks : tasks'[i] = tasks[i]
  /\ LET t == tasks'[Len(tasks')] IN
       /\ t.completed = FALSE
       /\ t.createdAt = t.updatedAt
       /\ t.title = taskData.title
       /\ t.description = taskData.description
       /\ t.priority = taskData.priority
       /\ t.dueDate = taskData.dueDate

\* C3: addTask(data) appends exactly one task, with completed = false,
\* createdAt = updatedAt and the four form fields copied from data, and
\* leaves every earlier task and its position as it was.
C3_AddTaskAppends ==
  [][\A taskData \in FormData, frac \in RandomDraws, d1, d2 \in 0..1 :
       addTask(taskData, frac, d1, d2, TRUE) => C3_Appended(taskData)]_vars

\* what C4 says of one editTask(taskData) step taken while editing
C4_Edited(taskData) ==
  /\ Len(tasks') = Len(tasks)
  /\ \A i \in DOMAIN tasks :
       IF tasks[i].id = editingTask.id
         THEN /\ tasks'[i].title = taskData.title
              /\ tasks'[i].description = taskData.description
              /\ tasks'[i].priority = taskData.priority
              /\ tasks'[i].dueDate = taskData.dueDate
              /\ tasks'[i].id = tasks[i].id
              /\ tasks'[i].createdAt = tasks[i].createdAt
              /\ tasks'[i].completed = tasks[i].completed
         ELSE tasks'[i] = tasks[i]
  /\ editingTask' = Null

\* C4: with editingTask set by startEditingTask(t), editTask(data) replaces
\* title, description, priority and dueDate of the task with t's id, keeps
\* its id, createdAt and the completed value it has in tasks, leaves the
\* tasks with other ids, the order and the length unchanged, and clears
\* editingTask.
C4_EditTaskFrame ==
  [][\A taskData \in FormData :
       (editingTask # Null /\ editTask(taskData, TRUE)) => C4_Edited(taskData)]_vars

\* an edit went through on a task that was toggled after the snapshot was
\* taken, with another task in the list
C4_Witness ==
  /\ last.op = "editTask" /\ last.write = "ok"
  /\ Len(tasks) = 2
  /\ \E i \in DOMAIN tasks :
       /\ tasks[i].id = last.target.id
       /\ tasks[i].completed # last.target.completed
       /\ tasks[i].title = last.data.title
  /\ \E i \in DOMAIN tasks : tasks[i].id # last.target.id

\* C5: with editingTask none, editTask(data) changes nothing and writes
\* nothing, for every data.
C5_EditTaskWithoutTarget ==
  [][\A taskData \in FormData :
       (editingTask = Null /\ editTask(taskData, TRUE)) =>
          /\ UNCHANGED <<tasks, editingTask, searchQuery, localStorage>>
          /\ last'.write = "none"]_vars

C5_Witness ==
  /\ last.op = "editTask" /\ last.write = "none"
  /\ tasks # << >>
  /\ editingTask = Null

\* positions of the tasks whose id is not taskId
C6_Kept(taskId) == {i \in DOMAIN tasks : tasks[i].id # taskId}

\* what C6 says of one deleteTask(taskId) step: the tasks with other ids
\* stay, in their order, and no task with taskId is left
C6_Removed(taskId) ==
  /\ Len(tasks') = Cardinality(C6_Kept(taskId))
  /\ \A k \in C6_Kept(taskId) :
       tasks'[Cardinality({m \in C6_Kept(taskId) : m <= k})] = tasks[k]
  /\ \A j \in DOMAIN tasks' : tasks'[j].id # taskId
  /\ (\A i \in DOMAIN tasks : tasks[i].id # taskId) => tasks' = tasks

\* C6: deleteTask(id) removes the task with that id and leaves the other
\* tasks and their relative order unchanged; with an id that is not in
\* tasks, and so on a second call with the same id, tasks is unchanged.
C6_DeleteTask ==
  /\ [][\A taskId \in KnownIds :
          deleteTask(taskId, TRUE) => C6_Removed(taskId)]_vars
  /\ [](last.op = "deleteTask" => WithoutId(tasks, last.id) = tasks)

\* a task was removed and another one is left
C6_Witness ==
  /\ last.op = "deleteTask" /\ last.found
  /\ Len(tasks) = 1

\* C7: deleteTask(id) clears editingTask when editingTask has that id and
\* leaves editingTask as it is when it is none or has another id.
C7_DeleteTaskEditing ==
  [][\A taskId \in KnownIds :
       deleteTask(taskId, TRUE) =>
          IF editingTask # Null /\ editingTask.id = taskId
            THEN editingTask' = Null
            ELSE editingTask' = editingTask]_vars

\* the task being edited was deleted
C7_Witness ==
  /\ last.op = "deleteTask"
  /\ last.editing # Null
  /\ last.editing.id = last.id
  /\ editingTask = Null

\* what C8 says of one toggleTaskComplete(taskId) step
C8_Toggled(taskId) ==
  /\ Len(tasks') = Len(tasks)
  /\ \A i \in DOMAIN tasks :
       IF tasks[i].id = taskId
         THEN /\ tasks'[i].completed = ~tasks[i].completed
              /\ [tasks'[i] EXCEPT !.completed = tasks[i].completed,
                                   !.updatedAt = tasks[i].updatedAt] = tasks[i]
         ELSE tasks'[i] = tasks[i]
  /\ UNCHANGED <<editingTask, searchQuery>>
  /\ (\A i \in DOMAIN tasks : tasks[i].id # taskId) => tasks' = tasks

\* C8: toggleTaskComplete(id) flips completed of the task with that id and
\* changes nothing else but that task's updatedAt; a second toggle of the
\* same id restores the completed values held before the first; with an id
\* not in tasks the sequence is unchanged.
C8_ToggleTaskComplete ==
  [][\A taskId \in KnownIds :
       toggleTaskComplete(taskId, TRUE) =>
          /\ C8_Toggled(taskId)
          /\ (last.op = "toggleTaskComplete" /\ last.id = taskId) =>
                \A i \in DOMAIN tasks : tasks'[i].completed = last.pre[i]]_vars

\* a toggle that took a task back to not completed, next to another task
C8_Witness ==
  /\ last.op = "toggleTaskComplete"
  /\ Len(tasks) = 2
  /\ \E i \in DOMAIN tasks :
       /\ tasks[i].id = last.id
       /\ last.pre[i] = TRUE
       /\ tasks[i].completed = FALSE

\* C9: clearAllTasks() leaves tasks empty, editingTask none and searchQuery
\* empty, and the "tasks" slot holds the JSON text of the empty array.
C9_ClearAllTasks ==
  last.op = "clearAllTasks" =>
     /\ tasks = << >>
     /\ editingTask = Null
     /\ searchQuery = EmptyStr
     /\ localStorage["tasks"] = [kind |-> "json", value |-> << >>]

\* cleared a store that held tasks, an editing target and a search query
C9_Witness ==
  /\ last.op = "clearAllTasks"
  /\ last.had.tasks > 0
  /\ last.had.editing
  /\ last.had.query # EmptyStr
  /\ tasks = << >>

\* the text s contains the text q, ignoring letter case
C10_ContainsIgnoringCase(s, q) ==
  \E i \in 1..(Len(s.chars) + 1), j \in 0..Len(s.chars) :
     /\ j - i + 1 = Len(q.chars)
     /\ \A k \in 1..Len(q.chars) :
          ToLowerCase(s).chars[i + k - 1] = ToLowerCase(q).chars[k]

\* positions of the tasks C10 selects; an absent description is the empty
\* text
C10_Selected ==
  IF Trim(searchQuery) = EmptyStr THEN DOMAIN tasks
  ELSE {i \in DOMAIN tasks :
          \/ C10_ContainsIgnoringCase(tasks[i].title, searchQuery)
          \/ C10_ContainsIgnoringCase(
               IF tasks[i].description = Undefined THEN EmptyStr
               ELSE tasks[i].description, searchQuery)}

\* the value C10 gives filteredTasks
C10_Expected ==
  [j \in 1..Cardinality(C10_Selected) |->
     tasks[CHOOSE i \in C10_Selected :
             Cardinality({m \in C10_Selected : m <= i}) = j]]

\* C10: for every tasks and searchQuery, filteredTasks is computed and is
\* the order-preserving subsequence of the selected tasks: all of them for
\* a blank query, else those whose title or description contains the query
\* ignoring case.
C10_FilteredTasks ==
  /\ filteredTasks.ok
  /\ filteredTasks.value = C10_Expected

\* whenever the computation of filteredTasks does not throw, its value is
\* the expected subsequence
FilteredTasksWhenComputed ==
  filteredTasks.ok => filteredTasks.value = C10_Expected

-----------------------------------------------------------------------------
\* positions of the tasks without a description
C11_NoDescription == {i \in DOMAIN tasks : tasks[i].description = Undefined}

\* C11: computing filteredTasks never fails when a task has no description:
\* under a non-blank query the computation succeeds, and a task without a
\* description is in the result exactly when its title contains the query
\* ignoring case.
C11_AbsentDescriptionIsEmpty ==
  (Trim(searchQuery) # EmptyStr /\ C11_NoDescription # {}) =>
    /\ filteredTasks.ok
    /\ \A i \in C11_NoDescription :
         (\E j \in DOMAIN filteredTasks.value :
            filteredTasks.value[j] = tasks[i])
           <=> C10_ContainsIgnoringCase(tasks[i].title, searchQuery)

-----------------------------------------------------------------------------
\* positions of the tasks that are not completed and due strictly before
\* the given time
C12_OverdueAt(time) ==
  {i \in DOMAIN tasks :
     /\ ~tasks[i].completed
     /\ tasks[i].dueDate # Undefined
     /\ TimeOf(tasks[i].dueDate) < time}

C12_Completed == {i \in DOMAIN tasks : tasks[i].completed}

\* the four counts, for the time at which the stats were evaluated
C12_Counts ==
  LET s == taskStats.value
  IN /\ s.total = Len(tasks)
     /\ s.completed = Cardinality(C12_Completed)
     /\ s.pending = s.total - s.completed
     /\ s.overdue = Cardinality(C12_OverdueAt(taskStats.at))
     /\ s.total = s.completed + s.pending
     /\ s.overdue <= s.pending

\* toggleTaskComplete on the one task with that id, pending and overdue,
\* while the stats are those of the current time
C12_CompletesOverdue(i) ==
  /\ toggleTaskComplete(tasks[i].id, TRUE)
  /\ \A j \in DOMAIN tasks : tasks[j].id = tasks[i].id => j = i
  /\ i \in C12_OverdueAt(now)
  /\ taskStats.value = StatsOf(tasks, now)

C12_Stats(total, completed, pending, overdue) ==
  [total |-> total, completed |-> completed, pending |-> pending,
   overdue |-> overdue]

\* the steps of add, toggle, delete from the empty store, the task not
\* being overdue and the hook rendering it
C12_Scenario ==
  /\ (tasks = << >> /\ AddTaskStep /\ C12_OverdueAt(now)' = {} /\ Mounted')
       => taskStats'.value = C12_Stats(1, 0, 1, 0)
  /\ (Len(tasks) = 1 /\ ~tasks[1].completed
        /\ toggleTaskComplete(tasks[1].id, TRUE))
       => taskStats'.value = C12_Stats(1, 1, 0, 0)
  /\ (Len(tasks) = 1 /\ deleteTask(tasks[1].id, TRUE))
       => taskStats'.value = C12_Stats(0, 0, 0, 0)

-----------------------------------------------------------------------------
\* C13: taskStats is recomputed on every read: whenever the hook has
\* rendered, overdue is the number of pending tasks due strictly before the
\* current time, also when the clock passed a due date after the last
\* change to tasks.
C13_OverdueAtRead ==
  Mounted => taskStats.value.overdue = Cardinality(C12_OverdueAt(now))

-----------------------------------------------------------------------------
\* the content of the "tasks" slot
C14_Slot == localStorage[TasksKey]

\* the slot holds the JSON text of an array
C14_SlotIsArray == C14_Slot # Null /\ "value" \in DOMAIN C14_Slot

\* tasks is the array of the slot, property by property
C14_ParsedArray ==
  /\ tasks # NullValue
  /\ Len(tasks) = Len(C14_Slot.value)
  /\ \A i \in DOMAIN tasks : \A f \in TaskFields :
       tasks[i][f] = IF f \in DOMAIN C14_Slot.value[i]
                       THEN C14_Slot.value[i][f] ELSE Undefined

\* C14: the adapter's read returns the caller's default (the empty array
\* for tasks) when nothing is stored under the key, when the read primitive
\* throws, or when the stored text is not JSON; otherwise it returns the
\* parsed stored value. It always returns.
C14_ReadReturnsDefaultOrParsed ==
  last.op = "load" =>
    IF ~last.read \/ C14_Slot = Null \/ C14_Slot = InvalidText
      THEN tasks = << >>
      ELSE IF C14_SlotIsArray THEN C14_ParsedArray ELSE tasks = NullValue

\* the read primitive threw over a slot that holds a stored task
C14_Witness ==
  /\ last.op = "load"
  /\ ~last.read
  /\ C14_SlotIsArray
  /\ Len(C14_Slot.value) = 1
  /\ tasks = << >>

\* the slot held text that is not JSON and the read did not throw
C14_WitnessInvalid ==
  /\ last.op = "load"
  /\ last.read
  /\ C14_Slot = InvalidText
  /\ tasks = << >>

-----------------------------------------------------------------------------
\* C15: when the write primitive throws while a value is being set, the
\* operation completes, the in-memory tasks is replaced by the new value
\* and the slot keeps its previous content.
C15_WriteFailureKeepsSlot ==
  [][Mounted =>
       /\ \A taskData \in FormData :
            addTask(taskData, << >>, 0, 0, FALSE) =>
              /\ tasks' = Append(tasks, NewTask(taskData, << >>, 0, 0))
              /\ localStorage' = localStorage
       /\ \A taskId \in Ids(tasks) :
            /\ deleteTask(taskId, FALSE) =>
                 /\ tasks' = WithoutId(tasks, taskId)
                 /\ tasks' # tasks
                 /\ localStorage' = localStorage
            /\ toggleTaskComplete(taskId, FALSE) =>
                 /\ Len(tasks') = Len(tasks)
                 /\ \A i \in DOMAIN tasks :
                      tasks[i].id = taskId =>
                        tasks'[i].completed = ~tasks[i].completed
                 /\ localStorage' = localStorage
       /\ clearAllTasks(FALSE) =>
            /\ tasks' = << >>
            /\ localStorage' = localStorage]_vars

\* a write failed: the task is in memory and not in the slot
C15_Witness ==
  /\ last.op = "addTask"
  /\ last.write = "failed"
  /\ Len(tasks) = 1
  /\ C14_Slot = Null

-----------------------------------------------------------------------------
\* C16: for every content of the "tasks" slot at initialization tasks
\* starts as a sequence, the stored array when the slot holds a JSON array
\* and the empty sequence otherwise, JSON such as null included; taskStats
\* and filteredTasks are computed in the first render.
C16_TasksStartsAsSequence ==
  last.op = "load" =>
    /\ IF last.read /\ C14_SlotIsArray THEN C14_ParsedArray
       ELSE tasks = << >>
    /\ Mounted

-----------------------------------------------------------------------------
\* C17: persisting tasks and loading them into a fresh store instance
\* yields a sequence equal to the original field for field, the time fields
\* being points in time of the same type, absent description and dueDate
\* included.
C17_RoundTrip ==
  (last.op = "load" /\ last.read /\ last.persisted) => tasks = last.before

\* what the round trip keeps: every field but the three time fields is
\* equal, and each time field denotes the same instant
RoundTripKeepsInstants ==
  (last.op = "load" /\ last.read /\ last.persisted) =>
    /\ Len(tasks) = Len(last.before)
    /\ \A i \in DOMAIN tasks : \A f \in TaskFields :
         IF f \in {"dueDate", "createdAt", "updatedAt"}
              /\ last.before[i][f] # Undefined
           THEN TimeOf(tasks[i][f]) = TimeOf(last.before[i][f])
           ELSE tasks[i][f] = last.before[i][f]

-----------------------------------------------------------------------------
\* an operation that follows startEditingTask(t) or addTask sees it
C18_SeesEarlier ==
  /\ last.op = "startEditingTask" =>
       /\ \A taskData \in FormData :
            editTask(taskData, TRUE) =>
              \A i \in DOMAIN tasks :
                tasks[i].id = last.task.id =>
                  tasks'[i] = EditedTask(tasks[i], taskData)
       /\ deleteTask(last.task.id, TRUE) => editingTask' = Null
  /\ last.op = "addTask" =>
       \A taskData \in FormData :
         addTask(taskData, << >>, 0, 0, TRUE) =>
           Len(tasks') = Len(tasks) + 1

\* C18: every operation observes the state left by the operations invoked
\* before it, also back to back inside one event handler before a render:
\* after startEditingTask(t), editTask(data) updates every task with t's id
\* and deleteTask(t.id) leaves editingTask none; an addTask after an
\* addTask leaves one task more.
C18_OperationsSeeEarlierOnes == [][C18_SeesEarlier]_vars

\* once a render has followed the earlier operation, the next one sees it
SeenAfterRender == [][closure = editingTask => C18_SeesEarlier]_vars

-----------------------------------------------------------------------------
\* every task was created no later than it was last updated
C19_CreatedBeforeUpdated ==
  \A i \in DOMAIN tasks :
    TimeOf(tasks[i].createdAt) <= TimeOf(tasks[i].updatedAt)

\* a step keeps createdAt: in place while no task is removed, and when
\* tasks are removed every task left has the createdAt of a task that had
\* its id
C19_CreatedAtKept ==
  IF Len(tasks') >= Len(tasks)
    THEN \A i \in DOMAIN tasks : tasks'[i].createdAt = tasks[i].createdAt
    ELSE \A j \in DOMAIN tasks' :
           \E i \in DOMAIN tasks :
             /\ tasks[i].id = tasks'[j].id
             /\ tasks[i].createdAt = tasks'[j].createdAt

\* C19: starting from the empty store, with a clock that never goes back,
\* every task has createdAt <= updatedAt in every reachable state, and no
\* operation changes the createdAt of an existing task.
C19_CreatedAt ==
  /\ []C19_CreatedBeforeUpdated
  /\ [][C19_CreatedAtKept]_vars

\* a task has been edited after the clock advanced
C19_Witness ==
  /\ last.op = "editTask"
  /\ last.target # Null
  /\ \E i \in DOMAIN tasks :
       /\ tasks[i].id = last.target.id
       /\ TimeOf(tasks[i].createdAt) < TimeOf(tasks[i].updatedAt)

-----------------------------------------------------------------------------
\* the steps of editTask that update a task and of toggleTaskComplete on
\* an existing task relate the updatedAt of the task before and after by R
C20_Updates(R(_, _)) ==
  /\ \A taskData \in FormData :
       (closure # Null /\ editTask(taskData, TRUE)) =>
         \A i \in DOMAIN tasks :
           tasks[i].id = closure.id =>
             R(tasks[i].updatedAt, tasks'[i].updatedAt)
  /\ \A taskId \in Ids(tasks) :
       toggleTaskComplete(taskId, TRUE) =>
         \A i \in DOMAIN tasks :
           tasks[i].id = taskId =>
             R(tasks[i].updatedAt, tasks'[i].updatedAt)

C20_StrictlyLater(before, after) == TimeOf(before) < TimeOf(after)

\* updatedAt becomes the time of the operation: never earlier than before,
\* and later exactly when the clock has advanced since the last update
C20_SetToNow(before, after) ==
  /\ after = DateOf(now)
  /\ TimeOf(before) <= TimeOf(after)
  /\ TimeOf(before) < TimeOf(after) <=> TimeOf(before) < now

\* C20: every editTask that updates a task and every toggleTaskComplete on
\* an existing task strictly increases that task's updatedAt, so two
\* consecutive toggles advance it twice.
C20_UpdatedAtStrictlyIncreases == [][C20_Updates(C20_StrictlyLater)]_vars

\* C20 as the code has it: every editTask that updates a task and every
\* toggleTaskComplete on an existing task sets that task's updatedAt to the
\* time of the operation, which is never earlier than its previous value
\* and is later only when the clock has advanced since the previous update.
C20_UpdatedAtSetToNow == [][C20_Updates(C20_SetToNow)]_vars

\* a task was toggled in the millisecond of its creation, another toggle
\* may follow: its updatedAt has not advanced
C20_Witness ==
  /\ last.op = "toggleTaskComplete"
  /\ \E i \in DOMAIN tasks :
       /\ tasks[i].id = last.id
       /\ tasks[i].completed # last.pre[i]
       /\ tasks[i].updatedAt = DateOf(now)
       /\ tasks[i].updatedAt = tasks[i].createdAt

-----------------------------------------------------------------------------
\* C21: setSearchQuery(q) sets searchQuery = q, startEditingTask(t) sets
\* editingTask = t and cancelEditing() sets editingTask = none from any
\* state; none of them changes tasks or the other field, and none of them
\* writes to the durable slot.
C21_OwnFieldOnly ==
  [][/\ \A query \in Queries :
          setSearchQuery(query) =>
            /\ searchQuery' = query
            /\ UNCHANGED <<tasks, editingTask, localStorage>>
     /\ \A i \in DOMAIN tasks :
          startEditingTask(tasks[i]) =>
            /\ editingTask' = tasks[i]
            /\ UNCHANGED <<tasks, searchQuery, localStorage>>
     /\ cancelEditing =>
          /\ editingTask' = Null
          /\ UNCHANGED <<tasks, searchQuery, localStorage>>]_vars

\* editing was cancelled while tasks, a query and a slot content existed
C21_Witness ==
  /\ last.op = "cancelEditing"
  /\ editingTask = Null
  /\ tasks # << >>
  /\ searchQuery # EmptyStr
  /\ localStorage[TasksKey] = JsonStringify(tasks)

-----------------------------------------------------------------------------
\* the last step handed form data to addTask or editTask
C22_Handed == last.op \in {"addTask", "editTask"}

\* a title that is not empty and has at most 100 characters, a description
\* of at most 500
C22_DataValid(data) ==
  /\ Len(data.title.chars) >= 1
  /\ Len(data.title.chars) <= 100
  /\ data.description # Undefined => Len(data.description.chars) <= 500

\* the input meets the constraints, a blank title counting as empty
C22_InputValid(input) ==
  /\ C22_DataValid(input)
  /\ Trim(input.title) # EmptyStr

\* C22: every TaskFormData the form hands to onSubmit has a non-empty title
\* of at most 100 characters and a description of at most 500; for an
\* input that violates this, an empty or blank title included, onSubmit is
\* not called.
C22_OnlyValidatedData ==
  [][\A input \in FormInputs :
       SubmitForm(input) =>
         /\ C22_Handed' => C22_DataValid(last'.data)
         /\ ~C22_InputValid(input) => ~C22_Handed']_vars

\* what holds of the form: an input whose title as typed is empty or longer
\* than 100, or whose description is longer than 500, is not handed on
RejectedAsTyped ==
  [][\A input \in FormInputs :
       (SubmitForm(input) /\ ~C22_DataValid(input)) =>
         /\ last'.op = "submitRejected"
         /\ UNCHANGED <<tasks, localStorage, showForm>>]_vars

-----------------------------------------------------------------------------
\* C23: submitting the form with a title of exactly one character is
\* rejected with the error that the title must be at least 2 characters,
\* and onSubmit is not called.
C23_OneCharacterTitleRejected ==
  [][\A input \in FormInputs :
       (Len(input.title.chars) = 1 /\ SubmitForm(input)) =>
         /\ last'.op = "submitRejected"
         /\ last'.error = "Title must be at least 2 characters"]_vars

-----------------------------------------------------------------------------
\* C25: on the page, after any sequence of UI events, editingTask is none
\* whenever the task form is hidden, so the Add Task button always opens
\* the add form.
C25_HiddenFormNotEditing == ~showForm => editingTask = Null

-----------------------------------------------------------------------------
\* the task is one of the elements of filteredTasks
C27_Included(task) ==
  \E j \in DOMAIN filteredTasks.value : filteredTasks.value[j] = task

\* title or description contains the query as typed, ignoring case
C27_ContainsUntrimmed(task) ==
  \/ C10_ContainsIgnoringCase(task.title, searchQuery)
  \/ /\ task.description # Undefined
     /\ C10_ContainsIgnoringCase(task.description, searchQuery)

\* C27: for a query that is not blank and has leading or trailing
\* whitespace, filteredTasks matches against the untrimmed lower-cased
\* query: a task is included exactly when its title or description
\* contains the query with its surrounding whitespace.
C27_MatchesUntrimmedQuery ==
  (Trim(searchQuery) # EmptyStr /\ Trim(searchQuery) # searchQuery
     /\ filteredTasks.ok) =>
    \A i \in DOMAIN tasks :
      C27_Included(tasks[i]) <=> C27_ContainsUntrimmed(tasks[i])

\* the query "A " selects nothing while its trimmed form selects the task
\* titled "A"
C27_Witness ==
  /\ Trim(searchQuery) # EmptyStr
  /\ Trim(searchQuery) # searchQuery
  /\ tasks # << >>
  /\ filteredTasks.ok
  /\ filteredTasks.value = << >>
  /\ FilteredOf(tasks, Trim(searchQuery)).value # << >>

-----------------------------------------------------------------------------
\* the characters of the combination: "ctrl+" for ctrlKey or metaKey, then
\* "shift+", then "alt+", then the key in lower case
C24_Combination(event) ==
  Str((IF event.ctrlKey \/ event.metaKey
         THEN <<99, 116, 114, 108, 43>> ELSE << >>)
      \o (IF event.shiftKey THEN <<115, 104, 105, 102, 116, 43>> ELSE << >>)
      \o (IF event.altKey THEN <<97, 108, 116, 43>> ELSE << >>)
      \o [i \in DOMAIN event.key.chars |->
            IF event.key.chars[i] \in 65..90
              THEN event.key.chars[i] + 32 ELSE event.key.chars[i]])

\* the handlers bound to the combination in the shortcuts map
C24_Bound(given, combination) ==
  {name \in given :
     \/ name = "onNewTask" /\ combination = Str(<<99, 116, 114, 108, 43, 110>>)
     \/ name = "onEscape" /\ combination = Str(<<101, 115, 99, 97, 112, 101>>)
     \/ name = "onSearch" /\ combination = Str(<<99, 116, 114, 108, 43, 102>>)
     \/ name = "onSave" /\ combination = Str(<<99, 116, 114, 108, 43, 115>>)}

\* C24: on every keydown while the shortcuts are enabled the dispatcher
\* builds the combination from ctrl (ctrlKey or metaKey), shift, alt and
\* the lower-cased key joined by '+'; it calls preventDefault and invokes
\* the one handler bound to exactly that string, once, and otherwise runs
\* no handler and does not prevent the default. While the hook is disabled
\* or unmounted no handler is invoked.
C24_Dispatcher ==
  [][\A event \in KeyEvents :
       KeyDown(event) =>
         LET bound == C24_Bound(listener.given, C24_Combination(event)) IN
         IF listener.attached /\ bound # {}
           THEN /\ last'.combination = C24_Combination(event)
                /\ last'.prevented
                /\ Len(last'.calls) = 1
                /\ last'.calls[1] \in bound
           ELSE /\ listener.attached =>
                     last'.combination = C24_Combination(event)
                /\ ~last'.prevented
                /\ last'.calls = << >>]_vars

\* Meta+N invoked onNewTask
C24_Witness ==
  /\ last.op = "keydown"
  /\ last.event.metaKey
  /\ ~last.event.ctrlKey
  /\ last.prevented
  /\ last.calls = << "onNewTask" >>

\* Ctrl+Shift+N did not invoke the handler of ctrl+n
C24_WitnessShift ==
  /\ last.op = "keydown"
  /\ listener.attached
  /\ "onNewTask" \in listener.given
  /\ last.combination = Str(<<99, 116, 114, 108, 43, 115, 104, 105, 102, 116, 43, 110>>)
  /\ ~last.prevented
  /\ last.calls = << >>

-----------------------------------------------------------------------------
\* editingTask is none or the id of a task in tasks
C26_NotDangling == editingTask = Null \/ editingTask.id \in Ids(tasks)

\* the positions of tasks an editTask with editingTask set rewrites
C26_Targets == {i \in DOMAIN tasks : tasks[i].id = closure.id}

C26_EditChangesOneTask ==
  \A data \in FormData :
    editTask(data, TRUE) /\ closure # Null =>
      /\ Cardinality(C26_Targets) = 1
      /\ \A i \in DOMAIN tasks \ C26_Targets : tasks'[i] = tasks[i]

\* C26: with startEditingTask only called with a task of tasks, editingTask
\* is always none or has the id of a task in tasks (deleteTask and
\* clearAllTasks never leave it pointing at a removed task), and every
\* editTask with editingTask set changes exactly one task.
C26_EditingTaskInTasks ==
  /\ []C26_NotDangling
  /\ [][C26_EditChangesOneTask]_vars

-----------------------------------------------------------------------------
\* a mutating operation runs and its write succeeds
C28_SuccessfulWrite ==
  \/ \E taskData \in FormData : addTask(taskData, << >>, 0, 0, TRUE)
  \/ \E taskData \in FormData : closure # Null /\ editTask(taskData, TRUE)
  \/ \E taskId \in Ids(tasks) :
       \/ deleteTask(taskId, TRUE)
       \/ toggleTaskComplete(taskId, TRUE)
  \/ clearAllTasks(TRUE)

\* C28: whatever the slot held before, and so also when earlier writes
\* failed and left it behind the in-memory tasks, a mutating operation
\* (addTask, editTask with editingTask set, deleteTask, toggleTaskComplete,
\* clearAllTasks) whose write succeeds leaves in the slot the JSON text of
\* the complete in-memory tasks.
C28_SuccessfulWriteHeals ==
  [][Mounted /\ C28_SuccessfulWrite =>
       localStorage'[TasksKey] = JsonStringify(tasks')]_vars

\* the write of an operation failed, the next operation's write succeeded
\* and the slot holds both tasks
C28_Witness ==
  /\ Wrote
  /\ last.afterFailure
  /\ Len(tasks) = 2
  /\ localStorage[TasksKey] = JsonStringify(tasks)

=============================================================================
